---- MODULE Spec2Model ----
(***************************************************************************)
(* Lithuanian vocabulary builder: the spaced-repetition scheduler          *)
(* (SRSSystem), the vocabulary store (VocabularyData) and the flashcard    *)
(* part of the application (VocabularyApp); the session log, the cache     *)
(* keys, the TTS client's resolution of a text to an audio URL, the        *)
(* callers' handling of its failure, the batch synthesis, the routes of    *)
(* the two servers, the health check, and speak with the TTS server's      *)
(* quickStart behind it one await at a time.                               *)
(*                                                                         *)
(* Time is counted in whole days (a Date is the number of its day);        *)
(* setDate(getDate() + n) is + n and toDateString() is the day itself.     *)
(* A multiplier is counted in halves: 0.5 is 1, 1.0 is 2, 1.5 is 3.        *)
(* A number with one decimal (toFixed(1)) is counted in tenths.            *)
(* studySession.results is counted, its entries are not kept.              *)
(***************************************************************************)
EXTENDS Integers, Sequences, FiniteSets, TLC

VARIABLES
    now,                    \* new Date(): the current day
    words,                  \* VocabularyData.words
    nextId,                 \* the ids generateId has handed out so far
    flashcards,             \* VocabularyApp.flashcards (the ids of the word objects)
    currentFlashcardIndex,  \* VocabularyApp.currentFlashcardIndex (0-based)
    studySession,           \* VocabularyApp.studySession
    reviews,                \* the updateWordSRS calls made so far
    ret,                    \* the value the last call returned
    streakDays,             \* calculateStreak: local streakDays
    checkDate,              \* calculateStreak: local checkDate
    pc,                     \* calculateStreak: position in the loop
    studySessions,          \* localStorage 'studySessions' (parsed)
    cache,                  \* LithuanianTTSClient.cache: key -> audio URL
    audioFiles,             \* the keys k with a file k.mp3 in the TTS server's audio_cache
    cacheIndex,             \* the keys of the TTS server's cache_index.json
    fallbackToLocal,        \* CloudTTSConfig.fallbackToLocal and who set it
    managerCache,           \* EnhancedAudioManager.cache: cache key -> day of the entry
    usesFallback,           \* LithuanianTTSClient.usesFallback
    procs,                  \* the calls of speak under way: where each one is
    jobs,                   \* the requests the TTS server is handling: where each one is
    partial                 \* the keys whose file is opened for writing and not yet written

vars == <<now, words, nextId, flashcards, currentFlashcardIndex, studySession,
          reviews, ret, streakDays, checkDate, pc,
          studySessions, cache, audioFiles, cacheIndex, fallbackToLocal,
          managerCache, usesFallback, procs, jobs, partial>>

appVars == <<words, nextId, flashcards, currentFlashcardIndex, studySession, reviews>>
streakVars == <<streakDays, checkDate, pc>>
stepVars == <<procs, jobs, partial>>
audioVars == <<studySessions, cache, audioFiles, cacheIndex, fallbackToLocal,
               managerCache, usesFallback, stepVars>>

Procs == { 1, 2 }       \* the calls that can be under way together
Idle == [pc |-> "idle"]

\* nothing exported, nothing memoised, nothing synthesised yet;
\* new CloudTTSConfig(): fallbackToLocal = true
AudioIdle ==
    /\ studySessions = <<>>
    /\ cache = <<>>
    /\ audioFiles = {}
    /\ cacheIndex = {}
    /\ fallbackToLocal = "default"
    /\ managerCache = <<>>
    /\ usesFallback = FALSE
    /\ procs = [p \in Procs |-> Idle]
    /\ jobs = [p \in Procs |-> Idle]
    /\ partial = {}

----------------------------------------------------------------------------
(* Bounds of the model *)

MaxDay == 1             \* the clock runs over the days 0..MaxDay
MaxWords == 2           \* ids handed out: the stored word and the words added
MaxReviews == 1         \* updateWordSRS calls in one behaviour
MaxLevelInput == 13     \* calculateNextReview is tried on the levels -1..MaxLevelInput
MaxMultiplier2 == 3     \* and on the multipliers 0, 0.5, .. MaxMultiplier2 / 2

----------------------------------------------------------------------------
(* Values *)

Null == <<>>            \* JavaScript null; a date that is set is <<day>>
None == [op |-> "none"] \* nothing returned yet

Min(a, b) == IF a < b THEN a ELSE b
Max(a, b) == IF a > b THEN a ELSE b

----------------------------------------------------------------------------
(* SRSSystem *)

intervals == <<1, 2, 4, 8, 16, 32, 64, 128, 256, 512>>
maxLevel == 10

\* intervals[i] || fallback, i a JavaScript (0-based) index: undefined outside the array
IntervalAt(i, fallback) ==
    IF i >= 0 /\ i < Len(intervals) THEN intervals[i + 1] ELSE fallback

\* Math.floor(baseInterval * streakMultiplier), the multiplier m2 in halves
FloorTimes(baseInterval, m2) == (baseInterval * m2) \div 2

PromoteLevel(currentLevel) == Min(currentLevel + 1, maxLevel)

\* a demotion by one level, as a slip in the constant would give
DemoteLevelByOne(currentLevel) == Max(1, currentLevel - 1)

DemoteLevel(currentLevel) == Max(1, currentLevel - 2)

\* the interval looked up for the level before the outcome
calculateNextReviewOldLevel(currentLevel, correct, m2, today) ==
    LET newLevel == IF correct THEN PromoteLevel(currentLevel)
                               ELSE DemoteLevel(currentLevel)
        baseInterval == IntervalAt(currentLevel - 1, intervals[Len(intervals)])
        actualInterval == FloorTimes(baseInterval, m2)
    IN  [newLevel |-> newLevel,
         nextReviewDate |-> today + actualInterval,
         intervalDays |-> actualInterval]

calculateNextReview(currentLevel, correct, m2, today) ==
    LET newLevel == IF correct THEN PromoteLevel(currentLevel)
                               ELSE DemoteLevel(currentLevel)
        baseInterval == IntervalAt(newLevel - 1, intervals[Len(intervals)])
        actualInterval == FloorTimes(baseInterval, m2)
    IN  [newLevel |-> newLevel,
         nextReviewDate |-> today + actualInterval,
         intervalDays |-> actualInterval]

isDueForReview(nextReviewDate, today) == nextReviewDate <= today

\* userRating: 1 = difficult, 2 = medium, 3 = easy
getDifficultyMultiplier(userRating) ==
    CASE userRating = 1 -> 1
      [] userRating = 2 -> 2
      [] userRating = 3 -> 3
      [] OTHER -> 2

----------------------------------------------------------------------------
(* A call of calculateNextReview on any level, outcome and multiplier *)

LevelInputs == -1..MaxLevelInput
MultiplierInputs == 0..MaxMultiplier2

CalculateNextReview(level, correct, m2) ==
    /\ ret' = [op |-> "calculateNextReview", level |-> level, correct |-> correct,
               multiplier2 |-> m2, today |-> now,
               value |-> calculateNextReview(level, correct, m2, now)]
    /\ UNCHANGED <<now, appVars, streakVars, audioVars>>

Tick ==
    /\ now < MaxDay
    /\ now' = now + 1
    /\ UNCHANGED <<appVars, ret, streakVars, audioVars>>

InitReview ==
    /\ now = 0
    /\ words = <<>>
    /\ nextId = 0
    /\ flashcards = <<>>
    /\ currentFlashcardIndex = 0
    /\ studySession = [active |-> FALSE, startTime |-> Null, results |-> 0]
    /\ reviews = 0
    /\ ret = None
    /\ streakDays = 0
    /\ checkDate = 0
    /\ pc = "idle"
    /\ AudioIdle

NextReview ==
    \/ \E level \in LevelInputs, correct \in BOOLEAN, m2 \in MultiplierInputs :
           CalculateNextReview(level, correct, m2)
    \/ Tick

SpecReview == InitReview /\ [][NextReview]_vars

Reviewed == ret.op = "calculateNextReview"
ValidLevels == 1..10
RatingMultipliers == {1, 2, 3}      \* 0.5, 1.0, 1.5

\* C1: for every level L in 1..10 calculateNextReview returns newLevel = min(L+1, 10)
\* on a correct outcome and newLevel = max(L-2, 1) on an incorrect one, whatever the
\* multiplier.
C1_NewLevel ==
    (Reviewed /\ ret.level \in ValidLevels) =>
        ret.value.newLevel =
            IF ret.correct
            THEN (IF ret.level < 10 THEN ret.level + 1 ELSE 10)
            ELSE (IF ret.level > 2 THEN ret.level - 2 ELSE 1)

C1_Witness ==
    /\ Reviewed
    /\ ret.level = 5 /\ ~ret.correct /\ ret.multiplier2 = 3
    /\ ret.value.newLevel = 3

\* C4: intervalDays = floor(baseInterval(newLevel) * multiplier), the base interval
\* taken from the table at the NEW level; level 3 correct gives level 4 and 8 days,
\* level 4 incorrect gives level 2 and floor(2 * multiplier) days; with a multiplier
\* of 0.5, 1 or 1.5 the interval lies in 0..768.
C4_Interval ==
    (Reviewed /\ ret.level \in ValidLevels /\ ret.multiplier2 \in RatingMultipliers) =>
        /\ 2 * ret.value.intervalDays <= intervals[ret.value.newLevel] * ret.multiplier2
        /\ 2 * ret.value.intervalDays + 2 > intervals[ret.value.newLevel] * ret.multiplier2
        /\ ret.value.intervalDays \in 0..768
        /\ ret.value.nextReviewDate = ret.today + ret.value.intervalDays
        /\ (ret.level = 3 /\ ret.correct /\ ret.multiplier2 = 2) =>
               (ret.value.newLevel = 4 /\ ret.value.intervalDays = 8)
        /\ (ret.level = 4 /\ ~ret.correct) =>
               (ret.value.newLevel = 2 /\ ret.value.intervalDays = ret.multiplier2)

C4_Witness ==
    /\ Reviewed
    /\ ret.level = 4 /\ ~ret.correct /\ ret.multiplier2 = 3
    /\ ret.value.newLevel = 2 /\ ret.value.intervalDays = 3

\* C5: on a level outside 1..10 calculateNextReview clamps, so the newLevel it
\* returns lies in 1..10 for both outcomes, and a level beyond the table gets the
\* last table entry (512) as its base interval.
C5_ClampsOutside ==
    (Reviewed /\ ret.level \notin ValidLevels) =>
        /\ ret.value.newLevel \in ValidLevels
        /\ ret.value.intervalDays =
               FloorTimes(intervals[ret.value.newLevel], ret.multiplier2)

----------------------------------------------------------------------------
(* VocabularyData *)

Word(id, today) ==
    [id |-> id,
     dateAdded |-> today,
     level |-> 1,
     nextReview |-> today,
     totalReviews |-> 0,
     correctAnswers |-> 0,
     lastReviewed |-> Null]

addWord(ws, id, today) == Append(ws, Word(id, today))

\* this.words.findIndex(w => w.id === wordId) + 1: 0 when there is none
FindIndex(ws, wordId) ==
    IF \E i \in 1..Len(ws) : ws[i].id = wordId
    THEN CHOOSE i \in 1..Len(ws) :
             /\ ws[i].id = wordId
             /\ \A j \in 1..(i - 1) : ws[j].id # wordId
    ELSE 0

\* a promotion that forgets the cap at level 10
StoredLevelUncapped(level, correct) ==
    IF correct THEN level + 1 ELSE Max(level - 1, 1)

\* the level updateWordSRS stores
StoredLevel(level, correct) ==
    IF correct THEN Min(level + 1, 10) ELSE Max(level - 1, 1)

\* correctAnswers counted up whatever the outcome
ReviewedWordCountsAll(w, correct, today) ==
    LET level == StoredLevel(w.level, correct)
        daysUntilNext == IntervalAt(level - 1, 512)
    IN  [w EXCEPT !.totalReviews = @ + 1,
                  !.lastReviewed = <<today>>,
                  !.correctAnswers = @ + 1,
                  !.level = level,
                  !.nextReview = today + daysUntilNext]

\* the srsData updateWordSRS leaves in the word it found
ReviewedWord(w, correct, today) ==
    LET level == StoredLevel(w.level, correct)
        daysUntilNext == IntervalAt(level - 1, 512)
    IN  [w EXCEPT !.totalReviews = @ + 1,
                  !.lastReviewed = <<today>>,
                  !.correctAnswers = IF correct THEN @ + 1 ELSE @,
                  !.level = level,
                  !.nextReview = today + daysUntilNext]

updateWordSRS(ws, wordId, correct, today) ==
    LET i == FindIndex(ws, wordId)
    IN  IF i = 0 THEN ws
        ELSE [ws EXCEPT ![i] = ReviewedWord(ws[i], correct, today)]

deleteWord(ws, wordId) ==
    LET i == FindIndex(ws, wordId)
    IN  IF i = 0 THEN ws
        ELSE SubSeq(ws, 1, i - 1) \o SubSeq(ws, i + 1, Len(ws))

IsDue(w, today) == w.nextReview <= today

getWordsForReview(ws, today) == SelectSeq(ws, LAMBDA w : IsDue(w, today))

\* array.slice(0, n)
Slice(seq, n) == SubSeq(seq, 1, Min(n, Len(seq)))

Ids(ws) == [i \in 1..Len(ws) |-> ws[i].id]

\* [...this.words].sort(() => 0.5 - Math.random()).slice(0, count): the words in
\* any order, cut to count
getRandomWords(ws, count) ==
    { Slice([i \in 1..Len(ws) |-> ws[p[i]]], count) :
        p \in { q \in [1..Len(ws) -> 1..Len(ws)] :
                  \A i, j \in 1..Len(ws) : q[i] = q[j] => i = j } }

RandomCount == 10       \* getRandomWords(count = 10)
SessionLimit == 20      \* dueWords.slice(0, 20)

----------------------------------------------------------------------------
(* VocabularyApp: the vocabulary store and the flashcards *)

\* handleAddWord
AddWord ==
    /\ nextId < MaxWords
    /\ nextId' = nextId + 1
    /\ words' = addWord(words, nextId + 1, now)
    /\ UNCHANGED <<now, flashcards, currentFlashcardIndex, studySession, reviews,
                   ret, streakVars, audioVars>>

\* deleteWord of a listed word
DeleteWord(wordId) ==
    /\ FindIndex(words, wordId) # 0
    /\ words' = deleteWord(words, wordId)
    /\ UNCHANGED <<now, nextId, flashcards, currentFlashcardIndex, studySession,
                   reviews, ret, streakVars, audioVars>>

\* updateWordSRS called for any id, as at the end of a quiz
UpdateWordSRS(wordId, correct) ==
    /\ reviews < MaxReviews
    /\ reviews' = reviews + 1
    /\ words' = updateWordSRS(words, wordId, correct, now)
    /\ UNCHANGED <<now, nextId, flashcards, currentFlashcardIndex, studySession,
                   ret, streakVars, audioVars>>

\* the index nextFlashcard leaves
NextIndex(index, cards) == IF index < Len(cards) - 1 THEN index + 1 ELSE 0

\* refreshFlashcards, shuffleFlashcards
RefreshFlashcards ==
    /\ \E shuffled \in getRandomWords(words, RandomCount) :
           flashcards' = Ids(shuffled)
    /\ currentFlashcardIndex' = 0
    /\ UNCHANGED <<now, words, nextId, studySession, reviews, ret, streakVars, audioVars>>

\* handleFeedback(difficulty): 1 difficult, 2 medium, 3 easy
HandleFeedback(difficulty) ==
    /\ Len(flashcards) # 0
    /\ currentFlashcardIndex \in 0..(Len(flashcards) - 1)
    /\ reviews < MaxReviews
    /\ reviews' = reviews + 1
    /\ LET currentWord == flashcards[currentFlashcardIndex + 1]
           correct == difficulty > 1
       IN  /\ words' = updateWordSRS(words, currentWord, correct, now)
           /\ studySession' =
                  IF studySession.active
                  THEN [studySession EXCEPT !.results = @ + 1]
                  ELSE studySession
    /\ currentFlashcardIndex' = NextIndex(currentFlashcardIndex, flashcards)
    /\ UNCHANGED <<now, nextId, flashcards, ret, streakVars, audioVars>>

\* the cards startPracticeSession picks: dueWords.slice(0, 20)
SessionCards(ws, today) == Slice(getWordsForReview(ws, today), SessionLimit)

\* startPracticeSession; its switchTab('flashcards') runs refreshFlashcards, which
\* draws the flashcards again with getRandomWords
StartPracticeSession ==
    /\ Len(getWordsForReview(words, now)) # 0
    /\ studySession' = [active |-> TRUE, startTime |-> <<now>>, results |-> 0]
    /\ \E shuffled \in getRandomWords(words, RandomCount) :
           flashcards' = Ids(shuffled)
    /\ currentFlashcardIndex' = 0
    /\ UNCHANGED <<now, words, nextId, reviews, ret, streakVars, audioVars>>

Ratings == {1, 2, 3}
WordIds == 1..MaxWords

----------------------------------------------------------------------------
(* The vocabulary store on its own: VocabularyData and its callers' calls *)

\* a word of an earlier visit, as loadWords reads it back: added on day 0 and
\* answered correctly n times since
RECURSIVE StoredWord(_)
StoredWord(n) ==
    IF n = 0 THEN Word(1, 0) ELSE ReviewedWord(StoredWord(n - 1), TRUE, 0)

StoredWords == {<<>>} \cup { <<StoredWord(n)>> : n \in 0..(maxLevel - 1) }

\* new VocabularyData(): this.words = this.loadWords()
Init ==
    /\ now = 0
    /\ words \in StoredWords
    /\ nextId = Len(words)
    /\ flashcards = <<>>
    /\ currentFlashcardIndex = 0
    /\ studySession = [active |-> FALSE, startTime |-> Null, results |-> 0]
    /\ reviews = 0
    /\ ret = None
    /\ streakDays = 0
    /\ checkDate = 0
    /\ pc = "idle"
    /\ AudioIdle

Next ==
    \/ AddWord
    \/ \E wordId \in WordIds : DeleteWord(wordId)
    \/ \E wordId \in WordIds, correct \in BOOLEAN : UpdateWordSRS(wordId, correct)
    \/ Tick

Spec == Init /\ [][Next]_vars

\* C2: one promotion and demotion policy: for every stored level and every outcome
\* updateWordSRS leaves the level and the next review that calculateNextReview
\* (multiplier 1) returns for the level it found, +1 capped at 10 on success and
\* -2 floored at 1 on failure.
C2_UniformPolicy ==
    [][\A wordId \in WordIds, correct \in BOOLEAN :
          (UpdateWordSRS(wordId, correct) /\ FindIndex(words, wordId) # 0) =>
              LET i == FindIndex(words, wordId)
                  outcome == calculateNextReview(words[i].level, correct, 2, now)
              IN  /\ words'[i].level = outcome.newLevel
                  /\ words'[i].nextReview = outcome.nextReviewDate]_vars

\* C3: a word that has not been reviewed is as addWord made it (level 1, next
\* review on the day it was added, counters zero, never reviewed), and after any
\* sequence of updateWordSRS calls every level is an integer in 1..10.
C3_LevelRange ==
    \A i \in 1..Len(words) :
        /\ words[i].level \in 1..10
        /\ words[i].totalReviews = 0 =>
               /\ words[i].level = 1
               /\ words[i].nextReview = words[i].dateAdded
               /\ words[i].correctAnswers = 0
               /\ words[i].lastReviewed = Null

\* a word at level 10 answered correctly once more, beside a word just added
C3_Witness ==
    /\ reviews >= 1
    /\ Len(words) = 2
    /\ words[1].level = 10 /\ words[1].totalReviews = 10
    /\ words[2].totalReviews = 0 /\ words[2].dateAdded = 1

----------------------------------------------------------------------------
(* The flashcards of the application, started on an empty vocabulary *)

InitApp == InitReview

NextApp ==
    \/ AddWord
    \/ \E difficulty \in Ratings : HandleFeedback(difficulty)
    \/ StartPracticeSession
    \/ RefreshFlashcards
    \/ Tick

SpecApp == InitApp /\ [][NextApp]_vars

\* the position in words of the card shown
CurrentIndex == FindIndex(words, flashcards[currentFlashcardIndex + 1])

\* C6: the rating given to a flashcard sets when the word is due next: a rating
\* recorded as correct (2 medium, 3 easy) moves the next review to today plus the
\* interval of the word's new level times the rating's multiplier (1.0, 1.5), so the
\* two ratings give different dates.
C6_RatingSetsNextReview ==
    [][\A difficulty \in {2, 3} :
          (HandleFeedback(difficulty) /\ CurrentIndex # 0) =>
              words'[CurrentIndex].nextReview =
                  now + FloorTimes(intervals[words'[CurrentIndex].level],
                                   getDifficultyMultiplier(difficulty))]_vars

\* C8: every card of the practice session startPracticeSession builds is a word
\* that is due when the session starts (nextReview <= now), and the session holds
\* at most 20 cards.
C8_SessionCardsAreDue ==
    [][StartPracticeSession =>
          /\ Len(flashcards') <= 20
          /\ \A k \in 1..Len(flashcards') :
                 LET i == FindIndex(words, flashcards'[k])
                 IN  i # 0 /\ words[i].nextReview <= now]_vars

----------------------------------------------------------------------------
(* SRSSystem.suggestStudySession *)

\* the sort's comparator: lower level first, then the earlier due date
CompareLevelOnly(a, b) == a.level - b.level

Compare(a, b) ==
    IF a.level # b.level THEN a.level - b.level
    ELSE a.nextReview - b.nextReview

\* Array.prototype.sort(compare), which is stable: each element goes before the
\* first one that compares greater
RECURSIVE InsertSorted(_, _)
InsertSorted(sorted, x) ==
    IF sorted = <<>> THEN <<x>>
    ELSE IF Compare(Head(sorted), x) > 0 THEN <<x>> \o sorted
    ELSE <<Head(sorted)>> \o InsertSorted(Tail(sorted), x)

RECURSIVE SortWords(_)
SortWords(ws) ==
    IF ws = <<>> THEN <<>>
    ELSE InsertSorted(SortWords(SubSeq(ws, 1, Len(ws) - 1)), ws[Len(ws)])

suggestStudySession(dueWords, targetSessionLength) ==
    IF Len(dueWords) = 0
    THEN [recommended |-> <<>>, totalDue |-> 0]
    ELSE [recommended |-> Slice(SortWords(dueWords), targetSessionLength),
          totalDue |-> Len(dueWords)]

\* the call: the sort is in place, so the caller's array is left sorted
SuggestStudySession(targetSessionLength) ==
    /\ ret' = [op |-> "suggestStudySession",
               targetSessionLength |-> targetSessionLength,
               value |-> suggestStudySession(words, targetSessionLength)]
    /\ words' = SortWords(words)
    /\ UNCHANGED <<now, nextId, flashcards, currentFlashcardIndex, studySession,
                   reviews, streakVars, audioVars>>

MaxBatch == 3           \* words in a list handed to suggestStudySession or generateStats

\* a word at the given level due on the given day: answered correctly level - 1
\* times, the last time intervals[level] days before it is due
BatchWord(id, level, nextReview) ==
    [id |-> id,
     dateAdded |-> IF level = 1 THEN nextReview ELSE nextReview - intervals[level],
     level |-> level,
     nextReview |-> nextReview,
     totalReviews |-> level - 1,
     correctAnswers |-> level - 1,
     lastReviewed |-> IF level = 1 THEN Null ELSE <<nextReview - intervals[level]>>]

\* the lists of n words, the ids telling the order they are handed over in
BatchesOf(n) ==
    { [i \in 1..n |-> BatchWord(i, f[i][1], f[i][2])] :
        f \in [1..n -> (1..(MaxReviews + 1)) \X (0..MaxDay)] }

Batches == UNION { BatchesOf(n) : n \in 0..MaxBatch }

InitBatch ==
    /\ now = 0
    /\ words \in Batches
    /\ nextId = Len(words)
    /\ flashcards = <<>>
    /\ currentFlashcardIndex = 0
    /\ studySession = [active |-> FALSE, startTime |-> Null, results |-> 0]
    /\ reviews = 0
    /\ ret = None
    /\ streakDays = 0
    /\ checkDate = 0
    /\ pc = "idle"
    /\ AudioIdle

NextBatch ==
    \E targetSessionLength \in 0..(MaxBatch + 1) : SuggestStudySession(targetSessionLength)

SpecBatch == InitBatch /\ [][NextBatch]_vars

Suggested == ret.op = "suggestStudySession"

\* C7: the sequence suggestStudySession returns is in non-decreasing order of
\* (level, nextReview), is no longer than targetSessionLength, and keeps words equal
\* on (level, nextReview) in the order they were handed over in.
C7_SortedBatch ==
    Suggested =>
        LET batch == ret.value.recommended
        IN  /\ Len(batch) <= ret.targetSessionLength
            /\ \A i, j \in 1..Len(batch) :
                   i < j =>
                       /\ batch[i].level <= batch[j].level
                       /\ batch[i].level = batch[j].level =>
                              batch[i].nextReview <= batch[j].nextReview
                       /\ (/\ batch[i].level = batch[j].level
                           /\ batch[i].nextReview = batch[j].nextReview) =>
                              batch[i].id < batch[j].id

\* three words, the first one cut off: the two kept are equal on (level, nextReview)
\* and stay in the order they were handed over in
C7_Witness ==
    /\ Suggested
    /\ ret.targetSessionLength = 2
    /\ ret.value.totalDue = 3
    /\ Len(ret.value.recommended) = 2
    /\ ret.value.recommended[1].id = 2
    /\ ret.value.recommended[2].id = 3
    /\ ret.value.recommended[1].level = ret.value.recommended[2].level
    /\ ret.value.recommended[1].nextReview = ret.value.recommended[2].nextReview

----------------------------------------------------------------------------
(* SRSSystem.calculateStreak and SRSSystem.generateStats *)

\* words.some(word => lastReviewed && reviewDate.toDateString() === dateStr)
HasReviewsOnDate(ws, date) ==
    \E i \in 1..Len(ws) :
        /\ ws[i].lastReviewed # Null
        /\ ws[i].lastReviewed[1] = date

\* a loop bound that lets one day too many through
WithinStreakLimitInclusive(days) == days <= 365

\* while (streakDays < 365)
WithinStreakLimit(days) == days < 365

\* the loop of calculateStreak, run from streakDays = days and checkDate = date
RECURSIVE StreakFrom(_, _, _)
StreakFrom(ws, days, date) ==
    IF WithinStreakLimit(days) /\ HasReviewsOnDate(ws, date)
    THEN StreakFrom(ws, days + 1, date - 1)
    ELSE days

calculateStreak(ws, today) == StreakFrom(ws, 0, today)

\* words.forEach(word => total += word.srsData[field])
RECURSIVE SumOf(_, _)
SumOf(ws, field) ==
    IF ws = <<>> THEN 0 ELSE ws[1][field] + SumOf(Tail(ws), field)

\* the words whose level lies in low..high
CountLevels(ws, low, high) ==
    Cardinality({ i \in 1..Len(ws) : ws[i].level >= low /\ ws[i].level <= high })

\* (numerator / denominator * scale).toFixed(1), in tenths, cut instead of rounded
ToFixed1Truncated(numerator, denominator, scale) ==
    (10 * scale * numerator) \div denominator

\* (numerator / denominator * scale).toFixed(1), in tenths: the nearest tenth, the
\* larger one on a tie
ToFixed1(numerator, denominator, scale) ==
    (20 * scale * numerator + denominator) \div (2 * denominator)

generateStats(ws, today) ==
    LET totalLevel == SumOf(ws, "level")
        totalCorrect == SumOf(ws, "correctAnswers")
        totalReviews == SumOf(ws, "totalReviews")
    IN  [totalWords |-> Len(ws),
         averageLevel |-> IF Len(ws) = 0 THEN 0 ELSE ToFixed1(totalLevel, Len(ws), 1),
         distribution |-> [beginner |-> CountLevels(ws, 1, 3),
                           intermediate |-> CountLevels(ws, 4, 6),
                           advanced |-> CountLevels(ws, 7, 8),
                           mastered |-> CountLevels(ws, 9, 10)],
         reviewsToday |-> Cardinality({ i \in 1..Len(ws) :
                              ws[i].lastReviewed = <<today>> }),
         streakDays |-> calculateStreak(ws, today),
         retentionRate |-> IF Len(ws) # 0 /\ totalReviews > 0
                           THEN ToFixed1(totalCorrect, totalReviews, 100)
                           ELSE 0]

GenerateStats ==
    /\ ret' = [op |-> "generateStats", value |-> generateStats(words, now)]
    /\ UNCHANGED <<now, appVars, streakVars, audioVars>>

\* a word added on day 0 and answered total times that day, the wrong answers first
RECURSIVE AnsweredWord(_, _, _)
AnsweredWord(id, total, correct) ==
    IF total = 0 THEN Word(id, 0)
    ELSE IF correct > 0
         THEN ReviewedWord(AnsweredWord(id, total - 1, correct - 1), TRUE, 0)
         ELSE ReviewedWord(AnsweredWord(id, total - 1, 0), FALSE, 0)

Counters == { c \in (0..MaxReviews) \X (0..MaxReviews) : c[2] <= c[1] }

AnsweredOf(n) ==
    { [i \in 1..n |-> AnsweredWord(i, f[i][1], f[i][2])] : f \in [1..n -> Counters] }

InitStats ==
    /\ now \in 0..MaxDay
    /\ words \in UNION { AnsweredOf(n) : n \in 0..MaxBatch }
    /\ nextId = Len(words)
    /\ flashcards = <<>>
    /\ currentFlashcardIndex = 0
    /\ studySession = [active |-> FALSE, startTime |-> Null, results |-> 0]
    /\ reviews = 0
    /\ ret = None
    /\ streakDays = 0
    /\ checkDate = 0
    /\ pc = "idle"
    /\ AudioIdle

NextStats == GenerateStats

SpecStats == InitStats /\ [][NextStats]_vars

Generated == ret.op = "generateStats"
AllCorrect == SumOf(words, "correctAnswers")
AllReviews == SumOf(words, "totalReviews")

----------------------------------------------------------------------------
(* SRSSystem.calculateStreak, one turn of its loop at a time *)

\* today.setHours(0, 0, 0, 0); streakDays = 0; checkDate = new Date(today)
StreakStart ==
    /\ pc = "idle"
    /\ streakDays' = 0
    /\ checkDate' = now
    /\ pc' = "loop"
    /\ UNCHANGED <<now, appVars, ret, audioVars>>

\* one test of the loop condition and one turn of the loop body
StreakLoop ==
    /\ pc = "loop"
    /\ IF WithinStreakLimit(streakDays) /\ HasReviewsOnDate(words, checkDate)
       THEN /\ streakDays' = streakDays + 1
            /\ checkDate' = checkDate - 1
            /\ pc' = "loop"
       ELSE /\ pc' = "return"
            /\ UNCHANGED <<streakDays, checkDate>>
    /\ UNCHANGED <<now, appVars, ret, audioVars>>

StreakReturn ==
    /\ pc = "return"
    /\ ret' = [op |-> "calculateStreak", value |-> streakDays]
    /\ pc' = "done"
    /\ UNCHANGED <<now, appVars, streakDays, checkDate, audioVars>>

LongRunExtra == 1       \* the longest run of reviewed days is 365 + LongRunExtra

\* a word added and answered once on the given day
StreakWord(id, day) == ReviewedWord(Word(id, day), TRUE, day)

\* n words, each never reviewed or last reviewed 0..MaxBatch days ago
RecentOf(n) ==
    { [i \in 1..n |-> IF f[i] < 0 THEN Word(i, 0) ELSE StreakWord(i, 0 - f[i])] :
        f \in [1..n -> -1..MaxBatch] }

\* n words last reviewed today, yesterday, .. n - 1 days ago
RunOf(n) == [i \in 1..n |-> StreakWord(i, 1 - i)]

InitStreak ==
    /\ now = 0
    /\ words \in UNION { RecentOf(n) : n \in 0..MaxWords }
                   \cup { RunOf(n) : n \in 364..(365 + LongRunExtra) }
    /\ nextId = Len(words)
    /\ flashcards = <<>>
    /\ currentFlashcardIndex = 0
    /\ studySession = [active |-> FALSE, startTime |-> Null, results |-> 0]
    /\ reviews = 0
    /\ ret = None
    /\ streakDays = 0
    /\ checkDate = 0
    /\ pc = "idle"
    /\ AudioIdle

NextStreak ==
    \/ StreakStart
    \/ StreakLoop
    \/ StreakReturn

\* the loop is synchronous code: once called it runs on to its return
SpecStreak ==
    /\ InitStreak
    /\ [][NextStreak]_vars
    /\ WF_vars(StreakLoop)
    /\ WF_vars(StreakReturn)

ReviewedOn(day) == \E i \in 1..Len(words) : words[i].lastReviewed = <<day>>

\* C10: the streak calculateStreak returns is the number of consecutive days,
\* counted back from today inclusive, that each have a word last reviewed on them:
\* every day counted has one, the first day not counted has none unless 365 days were
\* counted, the result never exceeds 365, and the walk back always ends.
C10_Streak ==
    /\ [](pc = "done" =>
            /\ ret.value \in 0..365
            /\ \A k \in 0..(ret.value - 1) : ReviewedOn(now - k)
            /\ ret.value < 365 => ~ReviewedOn(now - ret.value))
    /\ (pc = "loop") ~> (pc = "done")

\* more than 365 days in a row reviewed: the walk stops at 365
C10_Witness ==
    /\ pc = "done"
    /\ ret.value = 365
    /\ ReviewedOn(now - 365)

----------------------------------------------------------------------------
(* SRSSystem.exportSessionData and the rolling session log.  The instant an  *)
(* export is made at (new Date().toISOString()) is counted in exports: each  *)
(* export is later than the one before it.                                   *)

SessionLogLimit == 100
MaxExports == 102       \* exports made in one behaviour

\* the session log with its newest entries cut off, as a slip in the splice gives
KeepOldest(sessions, limit) ==
    IF Len(sessions) > limit THEN SubSeq(sessions, 1, limit) ELSE sessions

\* if (sessions.length > 100) sessions.splice(0, sessions.length - 100)
KeepLast(sessions, limit) ==
    IF Len(sessions) > limit
    THEN SubSeq(sessions, Len(sessions) - limit + 1, Len(sessions))
    ELSE sessions

\* the instant of the next export
Instant(sessions) == IF Len(sessions) = 0 THEN 1 ELSE sessions[Len(sessions)].date + 1

\* the session object; sessionResults is a sequence of [correct |-> ..] records
Session(date, sessionWords, sessionResults) ==
    [date |-> date,
     wordsReviewed |-> Len(sessionWords),
     correctAnswers |->
         Cardinality({ i \in 1..Len(sessionResults) : sessionResults[i].correct })]

exportSessionData(sessions, sessionWords, sessionResults) ==
    LET session == Session(Instant(sessions), sessionWords, sessionResults)
    IN  [session |-> session,
         sessions |-> KeepLast(Append(sessions, session), SessionLogLimit)]

\* the call, on the words of the store and a session without answers
ExportSessionData ==
    /\ Instant(studySessions) <= MaxExports
    /\ LET out == exportSessionData(studySessions, words, <<>>)
       IN  /\ studySessions' = out.sessions
           /\ ret' = [op |-> "exportSessionData", value |-> out.session]
    /\ UNCHANGED <<now, appVars, streakVars, cache, audioFiles, cacheIndex,
                   fallbackToLocal, managerCache, usesFallback, stepVars>>

InitLog == InitReview

NextLog == ExportSessionData

SpecLog == InitLog /\ [][NextLog]_vars

\* the exports made so far: the instant of the session the last call returned
Exported == IF ret = None THEN 0 ELSE ret.value.date

\* C11: after any sequence of exports the session log holds at most 100 sessions,
\* and they are the most recently exported ones in export order: with n exports
\* made the log is the exports n - min(n, 100) + 1 .. n.
C11_RollingLog ==
    /\ Len(studySessions) <= 100
    /\ Len(studySessions) = Min(Exported, 100)
    /\ \A i \in 1..Len(studySessions) :
           studySessions[i].date = Exported - Len(studySessions) + i

\* 102 exports made: the first two are gone
C11_Witness ==
    /\ Len(studySessions) = 100
    /\ studySessions[1].date = 3
    /\ studySessions[100].date = 102

----------------------------------------------------------------------------
(* The cache keys: LithuanianTTSClient.generateTextKey, the TTS server's and *)
(* the fallback server's generateTextKey, and AppUtils.generateCacheKey.     *)
(* A text is a sequence of characters; a character is written as itself, a   *)
(* Lithuanian letter by its name (a_ogonek), a Cyrillic letter as ya.        *)

KeyLimit == 50
MaxTextLen == 3         \* the texts tried: every text of up to MaxTextLen characters

LowerCase ==
    [A |-> "a", B |-> "b", C |-> "c", D |-> "d", E |-> "e", F |-> "f", G |-> "g",
     H |-> "h", I |-> "i", J |-> "j", K |-> "k", L |-> "l", M |-> "m", N |-> "n",
     O |-> "o", P |-> "p", Q |-> "q", R |-> "r", S |-> "s", T |-> "t", U |-> "u",
     V |-> "v", W |-> "w", X |-> "x", Y |-> "y", Z |-> "z",
     A_ogonek |-> "a_ogonek", C_caron |-> "c_caron", E_ogonek |-> "e_ogonek",
     E_dot |-> "e_dot", I_ogonek |-> "i_ogonek", S_caron |-> "s_caron",
     U_ogonek |-> "u_ogonek", U_macron |-> "u_macron", Z_caron |-> "z_caron",
     YA |-> "ya"]

\* .replace(/ą/g, 'a') .. .replace(/ž/g, 'z')
Transliteration ==
    [a_ogonek |-> "a", c_caron |-> "c", e_ogonek |-> "e", e_dot |-> "e",
     i_ogonek |-> "i", s_caron |-> "s", u_ogonek |-> "u", u_macron |-> "u",
     z_caron |-> "z"]

AzLetters == { LowerCase[c] : c \in { "A", "B", "C", "D", "E", "F", "G", "H", "I",
                  "J", "K", "L", "M", "N", "O", "P", "Q", "R", "S", "T", "U", "V",
                  "W", "X", "Y", "Z" } }
Digits == { "0", "1", "2", "3", "4", "5", "6", "7", "8", "9" }
WhiteSpace == { " " }

MapChars(text, f) ==
    [i \in 1..Len(text) |-> IF text[i] \in DOMAIN f THEN f[text[i]] ELSE text[i]]

toLowerCase(text) == MapChars(text, LowerCase)
Transliterate(text) == MapChars(text, Transliteration)

IsAz(c) == c \in AzLetters
IsAzOrDigit(c) == c \in AzLetters \cup Digits

\* .replace(/[^a-z]/g, '')
StripNonAz(text) == SelectSeq(text, IsAz)

\* .replace(/[^a-z0-9]/g, '')
StripNonAzDigit(text) == SelectSeq(text, IsAzOrDigit)

\* .trim()
RECURSIVE TrimStart(_)
TrimStart(text) ==
    IF Len(text) > 0 /\ text[1] \in WhiteSpace THEN TrimStart(Tail(text)) ELSE text

RECURSIVE TrimEnd(_)
TrimEnd(text) ==
    IF Len(text) > 0 /\ text[Len(text)] \in WhiteSpace
    THEN TrimEnd(SubSeq(text, 1, Len(text) - 1))
    ELSE text

Trim(text) == TrimEnd(TrimStart(text))

\* the text left whole
SubstringAll(text, end) == text

\* .substring(0, end)
Substring0(text, end) == SubSeq(text, 1, Min(Len(text), end))

\* LithuanianTTSClient.generateTextKey
generateTextKey(text) ==
    Substring0(StripNonAz(Transliterate(toLowerCase(text))), KeyLimit)

\* generateTextKey of the TTS server (get_sound.js)
serverGenerateTextKey(text) ==
    Substring0(StripNonAz(Transliterate(toLowerCase(text))), KeyLimit)

\* generateTextKey of the main server, the fallback endpoint
fallbackGenerateTextKey(text) ==
    Substring0(StripNonAz(Transliterate(toLowerCase(text))), KeyLimit)

\* AppUtils.generateCacheKey
generateCacheKey(text) ==
    Substring0(StripNonAzDigit(Transliterate(Trim(toLowerCase(text)))), KeyLimit)

TextChars == { "a", "L", "z_caron", "A_ogonek", "2", " ", "!" }

ShortTexts == UNION { [1..n -> TextChars] : n \in 0..MaxTextLen }

\* n letters with a mark in front, after the first letter, or nowhere
LongTexts ==
    UNION { { [i \in 1..n |-> "a"],
              <<"!">> \o [i \in 1..n |-> "a"],
              <<"L", " ">> \o [i \in 1..n |-> "a"] } :
            n \in (KeyLimit - 1)..(KeyLimit + MaxTextLen) }

Texts == ShortTexts \cup LongTexts

\* every derivation applied to the text at hand
GenerateTextKey ==
    /\ ret.op = "text"
    /\ ret' = [op |-> "generateTextKey",
               text |-> ret.text,
               client |-> generateTextKey(ret.text),
               server |-> serverGenerateTextKey(ret.text),
               fallback |-> fallbackGenerateTextKey(ret.text),
               utils |-> generateCacheKey(ret.text)]
    /\ UNCHANGED <<now, appVars, streakVars, audioVars>>

InitKey ==
    /\ now = 0
    /\ words = <<>>
    /\ nextId = 0
    /\ flashcards = <<>>
    /\ currentFlashcardIndex = 0
    /\ studySession = [active |-> FALSE, startTime |-> Null, results |-> 0]
    /\ reviews = 0
    /\ ret \in { [op |-> "text", text |-> text] : text \in Texts }
    /\ streakDays = 0
    /\ checkDate = 0
    /\ pc = "idle"
    /\ AudioIdle

NextKey == GenerateTextKey

SpecKey == InitKey /\ [][NextKey]_vars

Keyed == ret.op = "generateTextKey"

\* the text with its upper-case letters made lower-case and its lower-case ones
\* upper-case
SwapCase(text) ==
    [i \in 1..Len(text) |->
        IF text[i] \in DOMAIN LowerCase THEN LowerCase[text[i]]
        ELSE IF \E c \in DOMAIN LowerCase : LowerCase[c] = text[i]
             THEN CHOOSE c \in DOMAIN LowerCase : LowerCase[c] = text[i]
             ELSE text[i]]

IsMark(c) == c \in { " ", "!", "?" }
IsNoMark(c) == ~IsMark(c)

\* the text without its spaces and punctuation
WithoutMarks(text) == SelectSeq(text, IsNoMark)

LabasRytasBang == <<"L", "a", "b", "a", "s", " ", "r", "y", "t", "a", "s", "!">>
LabasRytas == <<"l", "a", "b", "a", "s", " ", "r", "y", "t", "a", "s">>
KaipSekasi == <<"K", "a", "i", "p", " ", "s", "e", "k", "a", "s", "i", "?">>
AciuText == <<"A", "c_caron", "i", "u_macron">>

\* C12: the key generateTextKey returns has at most 50 characters, all in a-z; it
\* is the lower-cased, transliterated text without its other characters, cut to
\* 50; texts that differ only in letter case, spaces or punctuation get the same
\* key ("Labas rytas!" and "labas rytas"), and "Kaip sekasi?" gets a key without
\* punctuation.
C12_TextKey ==
    Keyed =>
        /\ Len(ret.client) <= 50
        /\ \A i \in 1..Len(ret.client) : ret.client[i] \in AzLetters
        /\ LET kept == StripNonAz(Transliterate(toLowerCase(ret.text)))
           IN  /\ Len(ret.client) = Min(Len(kept), 50)
               /\ \A i \in 1..Len(ret.client) : ret.client[i] = kept[i]
        /\ generateTextKey(SwapCase(ret.text)) = ret.client
        /\ generateTextKey(WithoutMarks(ret.text)) = ret.client
        /\ generateTextKey(LabasRytasBang) = generateTextKey(LabasRytas)
        /\ generateTextKey(LabasRytas) =
               <<"l", "a", "b", "a", "s", "r", "y", "t", "a", "s">>
        /\ generateTextKey(KaipSekasi) =
               <<"k", "a", "i", "p", "s", "e", "k", "a", "s", "i">>
        /\ generateTextKey(AciuText) = <<"a", "c", "i", "u">>

\* a text of 52 characters with a capital and a space at its head: cut to 50
C12_Witness ==
    /\ Keyed
    /\ Len(ret.text) = 52
    /\ ret.text[1] = "L"
    /\ Len(ret.client) = 50
    /\ ret.client[1] = "l"

\* C13: every derivation of the cache key returns the same key for every text:
\* the client's, the TTS server's and the fallback server's generateTextKey and
\* AppUtils.generateCacheKey.
C13_SameKey ==
    Keyed =>
        /\ ret.client = ret.server
        /\ ret.client = ret.fallback
        /\ ret.client = ret.utils

----------------------------------------------------------------------------
(* LithuanianTTSClient.speak: the existence probes, the memo, the synthesis  *)
(* requests and the playback, with the TTS server behind the primary         *)
(* endpoint.  What the network and the servers answer is drawn per call.     *)

PrimaryUrl(key) == <<"serverUrl", key>>                  \* `${serverUrl}/${key}.mp3`
FallbackCacheUrl(key) == <<"fallbackUrl/audio_cache", key>>
FallbackAudioUrl(key) == <<"fallbackUrl/audio", key>>    \* the main server's audioUrl

ProbeOutcomes == { "hit", "miss", "error" }     \* response.ok, another status, fetch throws
SynthOutcomes == { "ok", "network", "status", "body", "failure" }
SynthFailures == SynthOutcomes \ { "ok" }

Outcomes ==
    [probePrimary : ProbeOutcomes, probeFallback : ProbeOutcomes,
     synthPrimary : SynthOutcomes, synthFallback : SynthOutcomes,
     play : BOOLEAN]

\* nothing stored
PutNothing(map, key, value) == map

\* Map.prototype.set
Put(map, key, value) ==
    [k \in DOMAIN map \cup {key} |-> IF k = key THEN value ELSE map[k]]

Probe(tier, outcome) == [tier |-> tier, result |-> outcome]
Request(tier, text, force, outcome) ==
    [tier |-> tier, text |-> text, force |-> force, result |-> outcome]

\* the fallback probe's answer not looked at
checkCachePrimaryOnly(text, memo, env) ==
    LET key == generateTextKey(text)
    IN  IF env.probePrimary = "hit"
        THEN [url |-> PrimaryUrl(key),
              trace |-> <<Probe("probePrimary", env.probePrimary)>>]
        ELSE [url |-> Null,
              trace |-> <<Probe("probePrimary", env.probePrimary),
                          Probe("probeFallback", env.probeFallback)>>]

\* memo is not read here: the parameter stands for this, which the method has
checkCacheDirectly(text, memo, env) ==
    LET key == generateTextKey(text)
    IN  IF env.probePrimary = "hit"
        THEN [url |-> PrimaryUrl(key),
              trace |-> <<Probe("probePrimary", env.probePrimary)>>]
        ELSE IF env.probeFallback = "hit"
        THEN [url |-> FallbackCacheUrl(key),
              trace |-> <<Probe("probePrimary", env.probePrimary),
                          Probe("probeFallback", env.probeFallback)>>]
        ELSE [url |-> Null,
              trace |-> <<Probe("probePrimary", env.probePrimary),
                          Probe("probeFallback", env.probeFallback)>>]

\* the force flag of the query not looked at
ttsGenerateCacheFirst(text, force, files, index) ==
    LET key == serverGenerateTextKey(text)
    IN  IF key \in files
        THEN [files |-> files, index |-> index, paid |-> 0]
        ELSE [files |-> files \cup {key}, index |-> index \cup {key}, paid |-> 1]

\* GET /tts/generate of the TTS server answering with success: the file is served
\* from the audio cache, or quickStart synthesises it and writes file and index
ttsGenerate(text, force, files, index) ==
    LET key == serverGenerateTextKey(text)
    IN  IF ~force /\ key \in files
        THEN [files |-> files, index |-> index, paid |-> 0]
        ELSE [files |-> files \cup {key}, index |-> index \cup {key}, paid |-> 1]

\* the loop over the servers given up after the first one
getAudioUrlPrimaryOnly(text, force, memo, files, index, env) ==
    LET key == generateTextKey(text)
        looked == IF force THEN <<>> ELSE <<Probe("memo", "miss")>>
        first == Request("synthPrimary", text, force, env.synthPrimary)
    IN  IF ~force /\ key \in DOMAIN memo
        THEN [url |-> memo[key], thrown |-> FALSE, trace |-> <<Probe("memo", "hit")>>,
              memo |-> memo, files |-> files, index |-> index, paid |-> 0,
              server |-> "none"]
        ELSE IF env.synthPrimary = "ok"
        THEN LET server == ttsGenerate(text, force, files, index)
             IN  [url |-> PrimaryUrl(key), thrown |-> FALSE,
                  trace |-> looked \o <<first>>,
                  memo |-> Put(memo, key, PrimaryUrl(key)),
                  files |-> server.files, index |-> server.index,
                  paid |-> server.paid, server |-> "primary"]
        ELSE [url |-> Null, thrown |-> TRUE,
              trace |-> looked \o <<first>>,
              memo |-> memo, files |-> files, index |-> index, paid |-> 0,
              server |-> "none"]

getAudioUrl(text, force, memo, files, index, env) ==
    LET key == generateTextKey(text)
        looked == IF force THEN <<>> ELSE <<Probe("memo", "miss")>>
        first == Request("synthPrimary", text, force, env.synthPrimary)
        second == Request("synthFallback", text, force, env.synthFallback)
    IN  IF ~force /\ key \in DOMAIN memo
        THEN [url |-> memo[key], thrown |-> FALSE, trace |-> <<Probe("memo", "hit")>>,
              memo |-> memo, files |-> files, index |-> index, paid |-> 0,
              server |-> "none"]
        ELSE IF env.synthPrimary = "ok"
        THEN LET server == ttsGenerate(text, force, files, index)
             IN  [url |-> PrimaryUrl(key), thrown |-> FALSE,
                  trace |-> looked \o <<first>>,
                  memo |-> Put(memo, key, PrimaryUrl(key)),
                  files |-> server.files, index |-> server.index,
                  paid |-> server.paid, server |-> "primary"]
        ELSE IF env.synthFallback = "ok"
        THEN [url |-> FallbackAudioUrl(key), thrown |-> FALSE,
              trace |-> looked \o <<first, second>>,
              memo |-> Put(memo, key, FallbackAudioUrl(key)),
              files |-> files, index |-> index, paid |-> 0, server |-> "fallback"]
        ELSE [url |-> Null, thrown |-> TRUE,
              trace |-> looked \o <<first, second>>,
              memo |-> memo, files |-> files, index |-> index, paid |-> 0,
              server |-> "none"]

\* speak: error is the Error('Audio is not available right now. ..') it throws;
\* server is the one getAudioUrl got its URL from (it sets usesFallback by it)
speak(text, force, memo, files, index, env) ==
    LET probed == IF force THEN [url |-> Null, trace |-> <<>>]
                           ELSE checkCacheDirectly(text, memo, env)
        got == getAudioUrl(text, force, memo, files, index, env)
    IN  IF probed.url # Null
        THEN [url |-> probed.url, trace |-> probed.trace,
              played |-> env.play, error |-> ~env.play,
              memo |-> memo, files |-> files, index |-> index, paid |-> 0,
              server |-> "none"]
        ELSE [url |-> got.url, trace |-> probed.trace \o got.trace,
              played |-> ~got.thrown /\ env.play,
              error |-> got.thrown \/ ~env.play,
              memo |-> got.memo, files |-> got.files, index |-> got.index,
              paid |-> got.paid, server |-> got.server]

\* the answers that can come: the TTS server serves `${key}.mp3` from its audio
\* cache, so its probe hits only a file that is there; an answer nobody waits for
\* is left at its first value
Possible(key, force, memo, files, env) ==
    LET probes == ~force
        hit == probes /\ (env.probePrimary = "hit" \/ env.probeFallback = "hit")
        asks == ~hit /\ (force \/ key \notin DOMAIN memo)
    IN  /\ env.probePrimary = "hit" => key \in files
        /\ ~probes => env.probePrimary = "miss"
        /\ (~probes \/ env.probePrimary = "hit") => env.probeFallback = "miss"
        /\ ~asks => env.synthPrimary = "ok"
        /\ (~asks \/ env.synthPrimary = "ok") => env.synthFallback = "ok"
        /\ (asks /\ env.synthPrimary # "ok" /\ env.synthFallback # "ok") => env.play

SpokenTexts == { <<"L", "a", "!">>, <<"l", "a">> }

Speak(text, force) ==
    \E env \in { e \in Outcomes :
                    Possible(generateTextKey(text), force, cache, audioFiles, e) } :
        /\ LET out == speak(text, force, cache, audioFiles, cacheIndex, env)
           IN  /\ cache' = out.memo
               /\ audioFiles' = out.files
               /\ cacheIndex' = out.index
               /\ usesFallback' = IF out.server = "none" THEN usesFallback
                                  ELSE out.server = "fallback"
               /\ ret' = [op |-> "speak", text |-> text, force |-> force, at |-> now,
                          memoHad |-> generateTextKey(text) \in DOMAIN cache,
                          fileHad |-> serverGenerateTextKey(text) \in audioFiles,
                          url |-> out.url, trace |-> out.trace,
                          played |-> out.played, error |-> out.error,
                          paid |-> out.paid]
        /\ UNCHANGED <<now, appVars, streakVars, studySessions, fallbackToLocal,
                       managerCache, stepVars>>

InitResolve == InitReview

NextResolve == \E text \in SpokenTexts, force \in BOOLEAN : Speak(text, force)

SpecResolve == InitResolve /\ [][NextResolve]_vars

Spoken == ret.op = "speak"
Tiers(trace) == [i \in 1..Len(trace) |-> trace[i].tier]
Sent(trace, tier) == \E i \in 1..Len(trace) : trace[i].tier = tier
Answered(trace, tier, results) ==
    \E i \in 1..Len(trace) : trace[i].tier = tier /\ trace[i].result \in results
SynthSent(trace) == Sent(trace, "synthPrimary") \/ Sent(trace, "synthFallback")
ProbeSent(trace) == Sent(trace, "probePrimary") \/ Sent(trace, "probeFallback")

SynthOk(trace) ==
    \/ Answered(trace, "synthPrimary", {"ok"})
    \/ Answered(trace, "synthFallback", {"ok"})

TierRank ==
    [memo |-> 1, probePrimary |-> 2, probeFallback |-> 3, synthPrimary |-> 4,
     synthFallback |-> 5]

\* C14: without forceRegenerate the tiers are tried in the order memo, primary
\* probe, fallback probe, primary synthesis, fallback synthesis, stopping at the
\* first success; a memo hit for the key returns at once: no probe and no
\* synthesis request is sent.
C14_MemoFirst ==
    (Spoken /\ ~ret.force) =>
        /\ \A i, j \in 1..Len(ret.trace) :
               i < j => TierRank[ret.trace[i].tier] < TierRank[ret.trace[j].tier]
        /\ ret.memoHad =>
               /\ ~ProbeSent(ret.trace)
               /\ ~SynthSent(ret.trace)

\* C15: when an existence probe hits, the URL found is in the memo under the
\* text's key once speak has returned.
C15_ProbeHitMemoised ==
    (/\ Spoken
     /\ \/ Answered(ret.trace, "probePrimary", {"hit"})
        \/ Answered(ret.trace, "probeFallback", {"hit"})) =>
        /\ generateTextKey(ret.text) \in DOMAIN cache
        /\ cache[generateTextKey(ret.text)] = ret.url

\* C16: when the primary probe misses or errors and the fallback probe hits, the
\* URL resolved is the fallback endpoint's and no synthesis request is sent.
C16_FallbackProbe ==
    (/\ Spoken
     /\ Answered(ret.trace, "probePrimary", {"miss", "error"})
     /\ Answered(ret.trace, "probeFallback", {"hit"})) =>
        /\ ret.url = FallbackCacheUrl(generateTextKey(ret.text))
        /\ ~SynthSent(ret.trace)
        /\ ret.paid = 0

C16_Witness ==
    /\ Spoken
    /\ Answered(ret.trace, "probePrimary", {"error"})
    /\ Answered(ret.trace, "probeFallback", {"hit"})
    /\ ret.url = FallbackCacheUrl(<<"l", "a">>)
    /\ ret.played

\* C17: when the synthesis request to the primary endpoint fails, in whichever of
\* the four ways, the same request (text and force flag) goes to the fallback
\* endpoint; if that one succeeds its URL is resolved and memoised, so the
\* resolution does not fail on the primary failure alone.
C17_SynthesisFallback ==
    (Spoken /\ Answered(ret.trace, "synthPrimary", SynthFailures)) =>
        /\ \E i \in 1..Len(ret.trace) :
               /\ ret.trace[i].tier = "synthFallback"
               /\ ret.trace[i].text = ret.text
               /\ ret.trace[i].force = ret.force
               /\ ret.trace[i - 1].tier = "synthPrimary"
               /\ ret.trace[i - 1].text = ret.text
               /\ ret.trace[i - 1].force = ret.force
        /\ Answered(ret.trace, "synthFallback", {"ok"}) =>
               /\ ret.url = FallbackAudioUrl(generateTextKey(ret.text))
               /\ generateTextKey(ret.text) \in DOMAIN cache
               /\ cache[generateTextKey(ret.text)] = ret.url
               /\ ret.error => ~ret.played

\* an unparseable body from the primary endpoint, the fallback endpoint answers
C17_Witness ==
    /\ Spoken
    /\ Answered(ret.trace, "synthPrimary", {"body"})
    /\ Answered(ret.trace, "synthFallback", {"ok"})
    /\ ret.url = FallbackAudioUrl(<<"l", "a">>)
    /\ ~ret.error

\* C19: of two resolutions of one text in sequence, both without forceRegenerate,
\* at most one synthesises: when the first one got the audio synthesised, the
\* second sends no synthesis request and the synthesis backend is not invoked.
C19_OneSynthesis ==
    [][(/\ Spoken /\ ~ret.force
        /\ ret'.op = "speak" /\ ~ret'.force /\ ret'.text = ret.text) =>
           /\ ret.paid + ret'.paid <= 1
           /\ SynthOk(ret.trace) =>
                  (~SynthSent(ret'.trace) /\ ret'.paid = 0)]_vars

\* the text was synthesised and is in the memo; the primary probe errors and the
\* memo serves it
C19_Witness ==
    /\ Spoken
    /\ ~ret.force
    /\ ret.memoHad
    /\ generateTextKey(ret.text) \in audioFiles
    /\ Answered(ret.trace, "probePrimary", {"error"})
    /\ Answered(ret.trace, "memo", {"hit"})
    /\ ret.url = PrimaryUrl(generateTextKey(ret.text))

----------------------------------------------------------------------------
(* The callers' side of a failed resolution: VocabularyApp.pronounceSpecificWord *)
(* over the TTS client, and EnhancedAudioManager.speak over its providers.       *)
(* fallbackToLocal is "default" while it holds the true of new CloudTTSConfig(), *)
(* "on" or "off" once setFallbackToLocal has set it.                             *)

\* what pronounceSpecificWord leaves: the popup it showed and the voice that spoke
pronounceSpecificWord(word, memo, files, index, env) ==
    LET out == speak(word, FALSE, memo, files, index, env)
    IN  [resolved |-> out.url # Null,
         popup |-> IF out.error THEN "error" ELSE "none",
         voice |-> IF out.played THEN "server" ELSE "none",
         memo |-> out.memo, files |-> out.files, index |-> out.index,
         server |-> out.server]

PronounceSpecificWord(word) ==
    \E env \in { e \in Outcomes :
                    Possible(generateTextKey(word), FALSE, cache, audioFiles, e) } :
        /\ LET out == pronounceSpecificWord(word, cache, audioFiles, cacheIndex, env)
           IN  /\ cache' = out.memo
               /\ audioFiles' = out.files
               /\ cacheIndex' = out.index
               /\ usesFallback' = IF out.server = "none" THEN usesFallback
                                  ELSE out.server = "fallback"
               /\ ret' = [op |-> "pronounceSpecificWord", text |-> word,
                          resolved |-> out.resolved, popup |-> out.popup,
                          voice |-> out.voice]
        /\ UNCHANGED <<now, appVars, streakVars, studySessions, fallbackToLocal,
                       managerCache, stepVars>>

ProviderOutcomes == { "ok", "fail", "unavailable" }   \* speak resolves, rejects, isAvailable() false
ManagerOutcomes == [provider : ProviderOutcomes, local : ProviderOutcomes]

\* !text || !text.trim()
IsBlank(text) == \A i \in 1..Len(text) : text[i] \in WhiteSpace

\* btoa takes the characters up to U+00FF only
IsLatin1(text) ==
    \A i \in 1..Len(text) :
        /\ text[i] \notin DOMAIN Transliteration
        /\ text[i] \notin { LowerCase[c] : c \in DOMAIN LowerCase } \ AzLetters
        /\ text[i] \notin DOMAIN LowerCase \ { "A", "B", "C", "D", "E", "F", "G", "H",
               "I", "J", "K", "L", "M", "N", "O", "P", "Q", "R", "S", "T", "U", "V",
               "W", "X", "Y", "Z" }

\* `${language}_${btoa(text).substring(0, 32)}`, one to one on the texts tried
getCacheKey(text, language) == <<language, text>>

\* age < cacheExpiry, 24 hours
isCacheValid(day, today) == today - day < 1

Restrict(map, keys) == [k \in keys |-> map[k]]

cleanupCache(mcache, today) ==
    Restrict(mcache, { k \in DOMAIN mcache : ~(today - mcache[k] > 1) })

\* value is what the promise gives: true, false, or "thrown" when it rejects;
\* exhausted tells that the current provider was not available or failed
enhancedSpeak(text, fallback, mcache, today, env) ==
    LET key == getCacheKey(text, "lithuanian")
        cached == key \in DOMAIN mcache
        dropped == Restrict(mcache, DOMAIN mcache \ {key})
    IN  IF IsBlank(text)
        THEN [value |-> FALSE, voice |-> "none", exhausted |-> FALSE, cache |-> mcache]
        ELSE IF ~IsLatin1(text)
        THEN [value |-> "thrown", voice |-> "none", exhausted |-> FALSE,
              cache |-> mcache]
        ELSE IF cached /\ isCacheValid(mcache[key], today)
        THEN [value |-> TRUE, voice |-> "none", exhausted |-> FALSE, cache |-> mcache]
        ELSE IF env.provider = "ok"
        THEN [value |-> TRUE, voice |-> "cloud", exhausted |-> FALSE,
              cache |-> cleanupCache(Put(dropped, key, today), today)]
        ELSE IF fallback # "off" /\ env.local = "ok"
        THEN [value |-> TRUE, voice |-> "local", exhausted |-> TRUE, cache |-> dropped]
        ELSE [value |-> FALSE, voice |-> "none", exhausted |-> TRUE, cache |-> dropped]

ManagerTexts == { <<>>, <<" ">>, <<"l", "a">>, <<"a", "c_caron">> }

EnhancedSpeak(text) ==
    \E env \in ManagerOutcomes :
        /\ LET out == enhancedSpeak(text, fallbackToLocal, managerCache, now, env)
           IN  /\ managerCache' = out.cache
               /\ ret' = [op |-> "enhancedSpeak", text |-> text, value |-> out.value,
                          voice |-> out.voice, exhausted |-> out.exhausted,
                          at |-> now]
        /\ UNCHANGED <<now, appVars, streakVars, studySessions, cache, audioFiles,
                       cacheIndex, fallbackToLocal, usesFallback, stepVars>>

SetFallbackToLocal(enabled) ==
    /\ fallbackToLocal' = IF enabled THEN "on" ELSE "off"
    /\ UNCHANGED <<now, appVars, streakVars, ret, studySessions, cache, audioFiles,
                   cacheIndex, managerCache, usesFallback, stepVars>>

InitVoice == InitReview

NextVoice ==
    \/ PronounceSpecificWord(<<"l", "a">>)
    \/ \E text \in ManagerTexts : EnhancedSpeak(text)
    \/ \E enabled \in BOOLEAN : SetFallbackToLocal(enabled)
    \/ Tick

SpecVoice == InitVoice /\ [][NextVoice]_vars

\* C18: when every tier has failed the request ends in the error reported to the
\* caller, and the platform's built-in voice speaks only if the caller opted in:
\* pronounceSpecificWord shows the error and uses no other voice, and
\* EnhancedAudioManager.speak, its provider unavailable or failed, gives false
\* unless the caller has turned the local fallback on.
C18_NoUnchosenVoice ==
    /\ (ret.op = "pronounceSpecificWord" /\ ~ret.resolved) =>
           (ret.popup = "error" /\ ret.voice = "none")
    /\ (ret.op = "enhancedSpeak" /\ ret.exhausted) =>
           /\ ret.voice = "local" => fallbackToLocal = "on"
           /\ ret.voice # "local" => ret.value = FALSE

----------------------------------------------------------------------------
(* The batch: LithuanianTTSClient.generateBatch, POST /tts/batch and         *)
(* generateVocabularyAudio with quickStart behind it.  The audio cache is    *)
(* the files (audioFiles) and the index (cacheIndex) of the TTS server.      *)

MaxBatchTexts == 2      \* texts in one batch

\* quickStart: const text = inputText || 'Labas rytas! Kaip sekasi?'
DefaultText ==
    <<"L", "a", "b", "a", "s", " ", "r", "y", "t", "a", "s", "!", " ",
      "K", "a", "i", "p", " ", "s", "e", "k", "a", "s", "i", "?">>

\* quickStart without forceRegenerate; ok tells whether synthesizeSpeech and the
\* write of the file succeed; thrown is the error it rethrows
quickStart(inputText, files, index, ok) ==
    LET text == IF inputText = <<>> THEN DefaultText ELSE inputText
        textKey == serverGenerateTextKey(text)
    IN  IF textKey \in index /\ textKey \in files
        THEN [files |-> files, index |-> index, paid |-> 0, thrown |-> FALSE]
        ELSE IF ok
        THEN [files |-> files \cup {textKey}, index |-> index \cup {textKey},
              paid |-> 1, thrown |-> FALSE]
        ELSE [files |-> files, index |-> index, paid |-> 0, thrown |-> TRUE]

\* cache[textKey] && fs.existsSync(filepath)
IsCached(text, files, index) ==
    serverGenerateTextKey(text) \in index /\ serverGenerateTextKey(text) \in files

\* the loop over newItems, the i-th synthesis succeeding when oks[i]
RECURSIVE GenerateNew(_, _, _, _, _)
GenerateNew(newItems, i, files, index, oks) ==
    IF i > Len(newItems) THEN [files |-> files, index |-> index, paid |-> 0]
    ELSE LET one == quickStart(newItems[i], files, index, oks[i])
             rest == GenerateNew(newItems, i + 1, one.files, one.index, oks)
         IN  [files |-> rest.files, index |-> rest.index,
              paid |-> one.paid + rest.paid]

generateVocabularyAudio(wordList, files, index, oks) ==
    LET Cached(text) == IsCached(text, files, index)
        New(text) == ~IsCached(text, files, index)
        cachedItems == SelectSeq(wordList, Cached)
        newItems == SelectSeq(wordList, New)
        done == GenerateNew(newItems, 1, files, index, oks)
    IN  [result |-> [total |-> Len(wordList), cached |-> Len(cachedItems),
                     generated |-> Len(newItems)],
         files |-> done.files, index |-> done.index, paid |-> done.paid]

\* result.audioFiles.forEach(file => this.cache.set(file.key, file.audioUrl))
RECURSIVE SetAll(_, _)
SetAll(memo, texts) ==
    IF Len(texts) = 0 THEN memo
    ELSE SetAll(Put(memo, serverGenerateTextKey(texts[1]),
                    PrimaryUrl(serverGenerateTextKey(texts[1]))),
                Tail(texts))

BatchTexts == { <<>>, <<"l", "a">>, <<"L", "a", "!">> }
TextLists == UNION { [1..n -> BatchTexts] : n \in 0..MaxBatchTexts }

\* the client's call; reached tells whether the request got its answer
GenerateBatch(texts) ==
    \E reached \in BOOLEAN, oks \in [1..MaxBatchTexts -> BOOLEAN] :
        LET out == generateVocabularyAudio(texts, audioFiles, cacheIndex, oks)
            new == out.result.generated
        IN  /\ \A i \in 1..MaxBatchTexts : (~reached \/ i > new) => oks[i]
            /\ audioFiles' = IF reached THEN out.files ELSE audioFiles
            /\ cacheIndex' = IF reached THEN out.index ELSE cacheIndex
            /\ cache' = IF reached THEN SetAll(cache, texts) ELSE cache
            /\ ret' = [op |-> "generateBatch", texts |-> texts, reached |-> reached,
                       result |-> IF reached THEN out.result ELSE Null,
                       paid |-> IF reached THEN out.paid ELSE 0]
            /\ UNCHANGED <<now, appVars, streakVars, studySessions, fallbackToLocal,
                           managerCache, usesFallback, stepVars>>

InitAudioBatch == InitReview

NextAudioBatch == \E texts \in TextLists : GenerateBatch(texts)

SpecAudioBatch == InitAudioBatch /\ [][NextAudioBatch]_vars

\* C20: the batch is idempotent: a second call with the texts of the call before
\* it generates nothing: it reports generated = 0 and cached = total, and the
\* synthesis backend is not invoked.
C20_BatchIdempotent ==
    [][(/\ ret.op = "generateBatch" /\ ret.reached
        /\ ret'.op = "generateBatch" /\ ret'.reached
        /\ ret'.texts = ret.texts) =>
           /\ ret'.result.generated = 0
           /\ ret'.result.cached = ret'.result.total
           /\ ret'.paid = 0]_vars


----------------------------------------------------------------------------
(* LithuanianTTSClient.speak with forceRegenerate *)

\* C21: with forceRegenerate the resolution looks neither at the memo nor at the
\* existence probes and sends the synthesis request with force = true; the primary
\* endpoint, when it answers with success, has synthesised even if the file was
\* there already, and the memo holds the returned URL under the key afterwards.
C21_ForceRegenerate ==
    (Spoken /\ ret.force) =>
        /\ ~Sent(ret.trace, "memo")
        /\ ~ProbeSent(ret.trace)
        /\ Len(ret.trace) >= 1
        /\ ret.trace[1] = Request("synthPrimary", ret.text, TRUE,
                                  ret.trace[1].result)
        /\ Answered(ret.trace, "synthPrimary", {"ok"}) =>
               /\ ret.paid = 1
               /\ serverGenerateTextKey(ret.text) \in audioFiles
               /\ ret.url = PrimaryUrl(generateTextKey(ret.text))
        /\ SynthOk(ret.trace) =>
               /\ generateTextKey(ret.text) \in DOMAIN cache
               /\ cache[generateTextKey(ret.text)] = ret.url

\* the file was there and the memo had the key; the primary endpoint synthesises
C21_Witness ==
    /\ Spoken
    /\ ret.force
    /\ ret.memoHad
    /\ ret.fileHad
    /\ Answered(ret.trace, "synthPrimary", {"ok"})
    /\ ret.paid = 1
    /\ cache[generateTextKey(ret.text)] = ret.url


----------------------------------------------------------------------------
(* The age of a memo entry: the memo of LithuanianTTSClient (cache) and the   *)
(* cache of EnhancedAudioManager (managerCache), looked up as the days pass.  *)

MaxAge == 2             \* days that pass

cacheExpiry == 1        \* 24 * 60 * 60 * 1000 ms, in days

\* Date.now() a day later
Later ==
    /\ now < MaxAge
    /\ now' = now + 1
    /\ UNCHANGED <<appVars, ret, streakVars, audioVars>>

InitMemo == InitReview

NextMemo ==
    \/ \E force \in BOOLEAN : Speak(<<"l", "a">>, force)
    \/ EnhancedSpeak(<<"l", "a">>)
    \/ Later

SpecMemo == InitMemo /\ [][NextMemo]_vars

\* EnhancedAudioManager.speak answered from its cache: true with no provider run
ServedFromCache(r) == r.value = TRUE /\ r.voice = "none"

ProbeHit(trace) ==
    \/ Answered(trace, "probePrimary", {"hit"})
    \/ Answered(trace, "probeFallback", {"hit"})

\* C22: a memo entry older than the TTL of 24 hours is a miss when it is looked up
\* and is removed, so the request is resolved again; a younger entry is served
\* from the memo.  The entry is the one the call before made for the same text;
\* now' = now tells the step of a call from the passing of a day.
C22_MemoExpires ==
    [][/\ (/\ Spoken /\ SynthOk(ret.trace)
           /\ now' = now
           /\ ret'.op = "speak" /\ ~ret'.force /\ ret'.text = ret.text
           /\ ~ProbeHit(ret'.trace)) =>
              /\ ret'.at - ret.at > cacheExpiry =>
                     /\ ~Answered(ret'.trace, "memo", {"hit"})
                     /\ SynthSent(ret'.trace)
              /\ ret'.at - ret.at < cacheExpiry =>
                     Answered(ret'.trace, "memo", {"hit"})
       /\ (/\ ret.op = "enhancedSpeak" /\ ret.voice = "cloud"
           /\ now' = now
           /\ ret'.op = "enhancedSpeak" /\ ret'.text = ret.text) =>
              /\ ret'.at - ret.at > cacheExpiry =>
                     /\ ~ServedFromCache(ret')
                     /\ \A key \in DOMAIN managerCache' :
                            managerCache'[key] = ret'.at
              /\ ret'.at - ret.at < cacheExpiry => ServedFromCache(ret')]_vars


----------------------------------------------------------------------------
(* LithuanianTTSClient.speak one await at a time, two calls under way on one  *)
(* client, with GET /tts/generate of the TTS server and its quickStart one    *)
(* await at a time behind the primary endpoint.  procs[p] is the call p,      *)
(* jobs[p] the request of call p at the TTS server.  The synthesis backend    *)
(* gives the same audio for the same text, so a file is told by its key and   *)
(* by whether it is written out (partial).                                    *)

Tiers4 == { "probePrimary", "probeFallback", "synthPrimary", "synthFallback" }
NoneSent == [t \in Tiers4 |-> 0]

AsyncTexts == { <<"l", "a">>, <<"L", "a", "!">>, <<"a">> }

KeyOf(p) == generateTextKey(procs[p].text)

\* one more request of the call to the tier
Send(call, tier) == [call EXCEPT !.pc = tier, !.sent[tier] = @ + 1]

\* the call has its URL and plays it
Resolved(call, url, tier) == [call EXCEPT !.pc = "play", !.url = url, !.by = tier]

\* the same server asked once more
sameServer(tier) == tier

\* for (const server of servers): the server after the TTS server
nextServer(tier) == "synthFallback"

\* the file left open by the write
fileStaysOpen(open, key) == open

\* fs.writeFile has written the content and closed the file
fileWritten(open, key) == open \ {key}

\* getAudioUrl up to its first await: the memo, then the request to the primary
\* endpoint
StartGetAudioUrl(p, call) ==
    LET key == generateTextKey(call.text)
    IN  IF ~call.force /\ key \in DOMAIN cache
        THEN /\ procs' = [procs EXCEPT ![p] = Resolved(call, cache[key], "memo")]
             /\ UNCHANGED jobs
        ELSE /\ procs' = [procs EXCEPT ![p] = Send(call, "synthPrimary")]
             /\ jobs' = [jobs EXCEPT ![p] = [pc |-> "sent", text |-> call.text,
                                            force |-> call.force]]

\* speak(text, forceRegenerate) up to its first await
Call(p, text, force) ==
    /\ procs[p].pc = "idle"
    /\ LET call == [pc |-> "called", text |-> text, force |-> force, url |-> Null,
                    by |-> "none", sent |-> NoneSent, error |-> FALSE]
       IN  IF force
           THEN StartGetAudioUrl(p, call)
           ELSE /\ procs' = [procs EXCEPT ![p] = Send(call, "probePrimary")]
                /\ UNCHANGED jobs
    /\ UNCHANGED <<now, appVars, streakVars, ret, studySessions, cache, audioFiles,
                   cacheIndex, fallbackToLocal, managerCache, usesFallback, partial>>

\* checkCacheDirectly: the HEAD request to the TTS server is answered; its static
\* route finds the file or not, or the request fails
ProbePrimaryAnswer(p) ==
    /\ procs[p].pc = "probePrimary"
    /\ \E outcome \in ProbeOutcomes :
        /\ outcome = "hit" => KeyOf(p) \in audioFiles
        /\ outcome = "miss" => KeyOf(p) \notin audioFiles
        /\ procs' = [procs EXCEPT ![p] =
                        IF outcome = "hit"
                        THEN Resolved(@, PrimaryUrl(KeyOf(p)), "probePrimary")
                        ELSE Send(@, "probeFallback")]
    /\ UNCHANGED <<now, appVars, streakVars, ret, studySessions, cache, audioFiles,
                   cacheIndex, fallbackToLocal, managerCache, usesFallback, jobs,
                   partial>>

\* the HEAD request to the main server is answered; after a miss speak goes on to
\* getAudioUrl
ProbeFallbackAnswer(p) ==
    /\ procs[p].pc = "probeFallback"
    /\ \E outcome \in ProbeOutcomes :
        IF outcome = "hit"
        THEN /\ procs' = [procs EXCEPT ![p] =
                             Resolved(@, FallbackCacheUrl(KeyOf(p)), "probeFallback")]
             /\ UNCHANGED jobs
        ELSE StartGetAudioUrl(p, procs[p])
    /\ UNCHANGED <<now, appVars, streakVars, ret, studySessions, cache, audioFiles,
                   cacheIndex, fallbackToLocal, managerCache, usesFallback, partial>>

\* GET /tts/generate up to the first await of quickStart: the file is there and
\* is answered as cached, or quickStart loads the index and asks the backend
ServerReceive(p) ==
    /\ jobs[p].pc = "sent"
    /\ LET key == serverGenerateTextKey(jobs[p].text)
       IN  jobs' = [jobs EXCEPT ![p] =
                       IF ~jobs[p].force /\ key \in audioFiles
                       THEN [pc |-> "answer", success |-> TRUE, paid |-> 0]
                       ELSE [pc |-> "synthesizing", text |-> jobs[p].text,
                             snapshot |-> cacheIndex]]
    /\ UNCHANGED <<now, appVars, streakVars, ret, studySessions, cache, audioFiles,
                   cacheIndex, fallbackToLocal, managerCache, usesFallback, procs,
                   partial>>

\* client.synthesizeSpeech answers: fs.writeFile is called, or the error becomes
\* the answer 500
ServerSynthesized(p) ==
    /\ jobs[p].pc = "synthesizing"
    /\ \E ok \in BOOLEAN :
        jobs' = [jobs EXCEPT ![p] =
                    IF ok THEN [@ EXCEPT !.pc = "opening"]
                    ELSE [pc |-> "answer", success |-> FALSE, paid |-> 0]]
    /\ UNCHANGED <<now, appVars, streakVars, ret, studySessions, cache, audioFiles,
                   cacheIndex, fallbackToLocal, managerCache, usesFallback, procs,
                   partial>>

\* fs.writeFile opens the file: it is there and empty
ServerOpen(p) ==
    /\ jobs[p].pc = "opening"
    /\ LET key == serverGenerateTextKey(jobs[p].text)
       IN  /\ audioFiles' = audioFiles \cup {key}
           /\ partial' = partial \cup {key}
    /\ jobs' = [jobs EXCEPT ![p].pc = "writing"]
    /\ UNCHANGED <<now, appVars, streakVars, ret, studySessions, cache, cacheIndex,
                   fallbackToLocal, managerCache, usesFallback, procs>>

\* fs.writeFile writes the audio and closes the file
ServerWrite(p) ==
    /\ jobs[p].pc = "writing"
    /\ partial' = fileWritten(partial, serverGenerateTextKey(jobs[p].text))
    /\ jobs' = [jobs EXCEPT ![p].pc = "written"]
    /\ UNCHANGED <<now, appVars, streakVars, ret, studySessions, cache, audioFiles,
                   cacheIndex, fallbackToLocal, managerCache, usesFallback, procs>>

\* quickStart after the write: the entry is put into the index it loaded at its
\* start, the index is saved, and the handler answers
ServerIndex(p) ==
    /\ jobs[p].pc = "written"
    /\ cacheIndex' = jobs[p].snapshot \cup {serverGenerateTextKey(jobs[p].text)}
    /\ jobs' = [jobs EXCEPT ![p] = [pc |-> "answer", success |-> TRUE, paid |-> 1]]
    /\ UNCHANGED <<now, appVars, streakVars, ret, studySessions, cache, audioFiles,
                   fallbackToLocal, managerCache, usesFallback, procs, partial>>

\* getAudioUrl: the request to the primary endpoint is answered or fails; a good
\* answer is memoised, any other one sends the request to the fallback endpoint
SynthPrimaryAnswer(p) ==
    /\ procs[p].pc = "synthPrimary"
    /\ jobs[p].pc \in { "sent", "answer" }
    /\ \E outcome \in SynthOutcomes :
        /\ jobs[p].pc = "sent" => outcome = "network"
        /\ (jobs[p].pc = "answer" /\ jobs[p].success) => outcome \in { "ok", "body" }
        /\ (jobs[p].pc = "answer" /\ ~jobs[p].success) => outcome = "status"
        /\ IF outcome = "ok"
           THEN /\ procs' = [procs EXCEPT ![p] =
                                Resolved(@, PrimaryUrl(KeyOf(p)), "synthPrimary")]
                /\ cache' = Put(cache, KeyOf(p), PrimaryUrl(KeyOf(p)))
                /\ usesFallback' = FALSE
           ELSE /\ procs' = [procs EXCEPT ![p] = Send(@, nextServer("synthPrimary"))]
                /\ UNCHANGED <<cache, usesFallback>>
    /\ jobs' = [jobs EXCEPT ![p] =
                   IF @.pc = "sent" THEN [pc |-> "lost", paid |-> 0]
                   ELSE [pc |-> "answered", paid |-> @.paid]]
    /\ UNCHANGED <<now, appVars, streakVars, ret, studySessions, audioFiles,
                   cacheIndex, fallbackToLocal, managerCache, partial>>

\* the request to the fallback endpoint is answered or fails; after it the loop
\* over the servers is at its end and getAudioUrl throws
SynthFallbackAnswer(p) ==
    /\ procs[p].pc = "synthFallback"
    /\ \E outcome \in SynthOutcomes :
        IF outcome = "ok"
        THEN /\ procs' = [procs EXCEPT ![p] =
                             Resolved(@, FallbackAudioUrl(KeyOf(p)), "synthFallback")]
             /\ cache' = Put(cache, KeyOf(p), FallbackAudioUrl(KeyOf(p)))
             /\ usesFallback' = TRUE
        ELSE /\ procs' = [procs EXCEPT ![p] = [@ EXCEPT !.pc = "done", !.error = TRUE]]
             /\ UNCHANGED <<cache, usesFallback>>
    /\ UNCHANGED <<now, appVars, streakVars, ret, studySessions, audioFiles,
                   cacheIndex, fallbackToLocal, managerCache, jobs, partial>>

\* playAudio: onended resolves, onerror rejects and speak throws its error
PlayAnswer(p) ==
    /\ procs[p].pc = "play"
    /\ \E played \in BOOLEAN :
        procs' = [procs EXCEPT ![p] = [@ EXCEPT !.pc = "done", !.error = ~played]]
    /\ UNCHANGED <<now, appVars, streakVars, ret, studySessions, cache, audioFiles,
                   cacheIndex, fallbackToLocal, managerCache, usesFallback, jobs,
                   partial>>

\* an answer arrives or a step of the server is made
Answer(p) ==
    \/ ProbePrimaryAnswer(p)
    \/ ProbeFallbackAnswer(p)
    \/ ServerReceive(p)
    \/ ServerSynthesized(p)
    \/ ServerOpen(p)
    \/ ServerWrite(p)
    \/ ServerIndex(p)
    \/ SynthPrimaryAnswer(p)
    \/ SynthFallbackAnswer(p)
    \/ PlayAnswer(p)

InitAsync == InitReview

\* two calls without forceRegenerate, the second for a text of the first one's key
NextSameKey ==
    \/ Call(1, <<"l", "a">>, FALSE)
    \/ \E text \in { <<"l", "a">>, <<"L", "a", "!">> } : Call(2, text, FALSE)
    \/ \E p \in Procs : Answer(p)

SpecSameKey == InitAsync /\ [][NextSameKey]_vars

Done(p) == procs[p].pc = "done"
BothDone == \A p \in Procs : Done(p)

\* C23: two resolutions of one uncached key, interleaved in any way at their
\* awaits: when both are over, each has a URL for the key unless both of its own
\* synthesis requests failed, the memo has the key exactly when a synthesis
\* request was answered, with a URL one of the two got, and the audio cache has
\* the one file of the key, written out and indexed, if a synthesis was made.
C23_BenignRace ==
    BothDone =>
        LET key == KeyOf(1)
        IN  /\ KeyOf(2) = key
            /\ \A p \in Procs :
                   \/ /\ procs[p].url \in { PrimaryUrl(key), FallbackCacheUrl(key),
                                            FallbackAudioUrl(key) }
                      /\ procs[p].by # "none"
                   \/ /\ procs[p].url = Null
                      /\ procs[p].sent["synthPrimary"] = 1
                      /\ procs[p].sent["synthFallback"] = 1
            /\ DOMAIN cache \subseteq {key}
            /\ (key \in DOMAIN cache) <=>
                   \E p \in Procs : procs[p].by \in { "synthPrimary", "synthFallback" }
            /\ key \in DOMAIN cache =>
                   \E p \in Procs : /\ procs[p].url = cache[key]
                                    /\ procs[p].by # "none"
            /\ partial = {}
            /\ audioFiles \subseteq {key}
            /\ cacheIndex = audioFiles
            /\ (\E p \in Procs : jobs[p].pc # "idle" /\ jobs[p].paid = 1) =>
                   audioFiles = {key}

\* both calls had the synthesis made and both have the URL of the primary endpoint
C23_Witness ==
    /\ BothDone
    /\ \A p \in Procs :
           /\ jobs[p].pc = "answered"
           /\ jobs[p].paid = 1
           /\ procs[p].url = PrimaryUrl(<<"l", "a">>)
    /\ procs[2].text = <<"L", "a", "!">>
    /\ cache = Put(<<>>, <<"l", "a">>, PrimaryUrl(<<"l", "a">>))
    /\ audioFiles = {<<"l", "a">>}


----------------------------------------------------------------------------
(* The routes of the two servers: the TTS server behind the primary endpoint *)
(* and the main server behind the fallback endpoint, each answering the      *)
(* requests LithuanianTTSClient sends.  An answer is ok when its status is   *)
(* 2xx and, for a JSON body the client reads, success is true.  Both servers *)
(* are given the same audio files.                                           *)

HeadPaths == { "root", "audio_cache" }     \* `/${key}.mp3`, `/audio_cache/${key}.mp3`

Requests ==
    [kind : {"head"}, path : HeadPaths, key : { <<"l", "a">>, <<"l">>, <<"a">> }]
        \cup [kind : {"generate"}, text : BatchTexts, force : BOOLEAN]
        \cup [kind : {"health"}]
        \cup [kind : {"batch"}, texts : TextLists]

\* the requests the client makes, by the endpoint it sends them to
SentToPrimary(req) ==
    \/ req.kind \in { "generate", "health", "batch" }
    \/ req.kind = "head" /\ req.path = "root"

SentToFallback(req) ==
    \/ req.kind \in { "generate", "health" }
    \/ req.kind = "head" /\ req.path = "audio_cache"

\* the TTS server: express.static('../audio_cache') at the root, GET
\* /tts/generate, POST /tts/batch; /tts/health is no route of it (it has /health)
primaryServe(req, files, index, oks) ==
    IF req.kind = "head"
    THEN [ok |-> req.path = "root" /\ req.key \in files,
          files |-> files, index |-> index]
    ELSE IF req.kind = "generate"
    THEN IF req.text = <<>>
         THEN [ok |-> FALSE, files |-> files, index |-> index]
         ELSE IF ~req.force /\ serverGenerateTextKey(req.text) \in files
         THEN [ok |-> TRUE, files |-> files, index |-> index]
         ELSE IF oks[1]
         THEN LET done == ttsGenerate(req.text, req.force, files, index)
              IN  [ok |-> TRUE, files |-> done.files, index |-> done.index]
         ELSE [ok |-> FALSE, files |-> files, index |-> index]
    ELSE IF req.kind = "health"
    THEN [ok |-> FALSE, files |-> files, index |-> index]
    ELSE LET done == generateVocabularyAudio(req.texts, files, index, oks)
         IN  [ok |-> TRUE, files |-> done.files, index |-> done.index]

\* the main server: express.static at /audio_cache, GET /tts/generate from the
\* files that are there, GET /tts/health; anything else under /tts/ is its 404
fallbackServe(req, files) ==
    IF req.kind = "head"
    THEN [ok |-> req.path = "audio_cache" /\ req.key \in files]
    ELSE IF req.kind = "generate"
    THEN [ok |-> req.text # <<>> /\ fallbackGenerateTextKey(req.text) \in files]
    ELSE IF req.kind = "health"
    THEN [ok |-> TRUE]
    ELSE [ok |-> FALSE]

\* a request of the client, answered by each of the two servers
Serve(req) ==
    \E oks \in [1..MaxBatchTexts -> BOOLEAN] :
        LET primary == primaryServe(req, audioFiles, cacheIndex, oks)
            fallback == fallbackServe(req, audioFiles)
        IN  /\ req.kind \in { "head", "health" } => \A i \in DOMAIN oks : oks[i]
            /\ audioFiles' = primary.files
            /\ cacheIndex' = primary.index
            /\ ret' = [op |-> "serve", request |-> req, primary |-> primary.ok,
                       fallback |-> fallback.ok]
            /\ UNCHANGED <<now, appVars, streakVars, studySessions, cache,
                           fallbackToLocal, managerCache, usesFallback, stepVars>>

InitContract == InitReview

NextContract == \E req \in Requests : Serve(req)

SpecContract == InitContract /\ [][NextContract]_vars

\* C24: the two endpoints have the same contract: a request the client sends to
\* one of them is answered by both with the same success or failure.
C24_SameContract ==
    (/\ ret.op = "serve"
     /\ SentToPrimary(ret.request) \/ SentToFallback(ret.request)) =>
        ret.primary = ret.fallback


----------------------------------------------------------------------------
(* LithuanianTTSClient.isServerAvailable: GET /tts/health of the primary and, *)
(* after a failure, of the fallback endpoint.                                 *)

HealthOutcomes == { "ok", "status", "error" }   \* response.ok, another status, fetch throws
HealthAnswers == [healthPrimary : HealthOutcomes, healthFallback : HealthOutcomes]

\* the fallback endpoint asked whatever the primary one answered
isServerAvailableAsksBoth(uses, env) ==
    IF env.healthFallback = "ok"
    THEN [value |-> TRUE, usesFallback |-> TRUE,
          trace |-> <<Probe("healthPrimary", env.healthPrimary),
                      Probe("healthFallback", env.healthFallback)>>]
    ELSE [value |-> env.healthPrimary = "ok",
          usesFallback |-> IF env.healthPrimary = "ok" THEN FALSE ELSE uses,
          trace |-> <<Probe("healthPrimary", env.healthPrimary),
                      Probe("healthFallback", env.healthFallback)>>]

\* uses is this.usesFallback before the call
isServerAvailable(uses, env) ==
    IF env.healthPrimary = "ok"
    THEN [value |-> TRUE, usesFallback |-> FALSE,
          trace |-> <<Probe("healthPrimary", env.healthPrimary)>>]
    ELSE IF env.healthFallback = "ok"
    THEN [value |-> TRUE, usesFallback |-> TRUE,
          trace |-> <<Probe("healthPrimary", env.healthPrimary),
                      Probe("healthFallback", env.healthFallback)>>]
    ELSE [value |-> FALSE, usesFallback |-> uses,
          trace |-> <<Probe("healthPrimary", env.healthPrimary),
                      Probe("healthFallback", env.healthFallback)>>]

\* an answer nobody waits for is left at its first value
IsServerAvailable ==
    \E env \in HealthAnswers :
        /\ env.healthPrimary = "ok" => env.healthFallback = "ok"
        /\ LET out == isServerAvailable(usesFallback, env)
           IN  /\ usesFallback' = out.usesFallback
               /\ ret' = [op |-> "isServerAvailable", value |-> out.value,
                          trace |-> out.trace, usesWas |-> usesFallback,
                          memoWas |-> cache]
        /\ UNCHANGED <<now, appVars, streakVars, studySessions, cache, audioFiles,
                       cacheIndex, fallbackToLocal, managerCache, stepVars>>

InitAvailable == InitReview

NextAvailable ==
    \/ IsServerAvailable
    \/ \E force \in BOOLEAN : Speak(<<"l", "a">>, force)

SpecAvailable == InitAvailable /\ [][NextAvailable]_vars

Checked == ret.op = "isServerAvailable"

\* C25: isServerAvailable sends one health probe to the primary endpoint and,
\* only if that one failed, one to the fallback endpoint; it gives true exactly
\* when one of the probes succeeded and then usesFallback tells which endpoint
\* answered (otherwise it is left as it was); no probe carries a text, and the
\* memo is as it was before the call.
C25_HealthProbe ==
    Checked =>
        /\ Len(ret.trace) \in { 1, 2 }
        /\ ret.trace[1].tier = "healthPrimary"
        /\ Len(ret.trace) = 2 <=> ret.trace[1].result # "ok"
        /\ Len(ret.trace) = 2 => ret.trace[2].tier = "healthFallback"
        /\ \A i \in 1..Len(ret.trace) : DOMAIN ret.trace[i] = { "tier", "result" }
        /\ ret.value <=> \E i \in 1..Len(ret.trace) : ret.trace[i].result = "ok"
        /\ ret.value => (usesFallback <=> Len(ret.trace) = 2)
        /\ ~ret.value => usesFallback = ret.usesWas
        /\ cache = ret.memoWas

\* the primary endpoint answers 404, the fallback endpoint answers; the memo has
\* an entry and usesFallback was false
C25_Witness ==
    /\ Checked
    /\ ret.value
    /\ ret.trace = <<Probe("healthPrimary", "status"), Probe("healthFallback", "ok")>>
    /\ ~ret.usesWas
    /\ usesFallback
    /\ cache # <<>>
    /\ cache = ret.memoWas


----------------------------------------------------------------------------
(* One call of speak and what it sends, with every request answered in the end *)

NextAsync ==
    \/ \E p \in Procs, text \in AsyncTexts, force \in BOOLEAN : Call(p, text, force)
    \/ \E p \in Procs : Answer(p)

SpecAsync == InitAsync /\ [][NextAsync]_vars

\* every request gets its answer or its error, every step of the server is made
SpecAnswered == SpecAsync /\ \A p \in Procs : WF_vars(Answer(p))

Called(p) == procs[p].pc # "idle"

\* C26: one call of speak sends at most one existence probe and at most one
\* synthesis request to each endpoint, never a second one to the same endpoint,
\* and with every request answered it comes to its end, with a URL or with the
\* error that audio is not available.
C26_BoundedRequests ==
    /\ [](\A p \in Procs : Called(p) =>
              /\ \A tier \in Tiers4 : procs[p].sent[tier] <= 1
              /\ Done(p) => (procs[p].url # Null \/ procs[p].error))
    /\ \A p \in Procs : Called(p) ~> Done(p)

\* all four requests were sent and failed: the call ends in the error
C26_Witness ==
    /\ Done(1)
    /\ \A tier \in Tiers4 : procs[1].sent[tier] = 1
    /\ procs[1].url = Null
    /\ procs[1].error


----------------------------------------------------------------------------
(* The counters of a word: VocabularyData.updateWordSRS called again and again *)

MaxOutcomes == 3        \* updateWordSRS calls in a run

\* updateWordSRS with the value it returns: false when no word has the id
RecordOutcome(wordId, correct) ==
    /\ reviews < MaxOutcomes
    /\ reviews' = reviews + 1
    /\ words' = updateWordSRS(words, wordId, correct, now)
    /\ ret' = [op |-> "updateWordSRS", wordId |-> wordId, correct |-> correct,
               value |-> FindIndex(words, wordId) # 0]
    /\ UNCHANGED <<now, nextId, flashcards, currentFlashcardIndex, studySession,
                   streakVars, audioVars>>

InitCounters == InitReview

NextCounters ==
    \/ AddWord
    \/ \E wordId \in WordIds, correct \in BOOLEAN : RecordOutcome(wordId, correct)

SpecCounters == InitCounters /\ [][NextCounters]_vars

\* C27: after any updateWordSRS calls 0 <= correctAnswers <= totalReviews in every
\* word; a call for the id of a word adds exactly 1 to its totalReviews, adds 1 to
\* its correctAnswers exactly when the outcome is correct, leaves every other word
\* as it was and returns true; a call for an id no word has returns false and
\* changes no word.
C27_Counters ==
    /\ [](\A i \in 1..Len(words) :
              /\ 0 <= words[i].correctAnswers
              /\ words[i].correctAnswers <= words[i].totalReviews)
    /\ [][reviews' = reviews + 1 =>
             LET i == FindIndex(words, ret'.wordId)
             IN  IF i = 0
                 THEN ret'.value = FALSE /\ words' = words
                 ELSE /\ ret'.value = TRUE
                      /\ Len(words') = Len(words)
                      /\ words'[i].totalReviews = words[i].totalReviews + 1
                      /\ words'[i].correctAnswers =
                             words[i].correctAnswers + (IF ret'.correct THEN 1 ELSE 0)
                      /\ words'[i].id = words[i].id
                      /\ \A j \in 1..Len(words) : j # i => words'[j] = words[j]]_vars

\* a word answered wrongly, correctly and wrongly, beside a word never reviewed
C27_Witness ==
    /\ Len(words) = 2
    /\ words[1].totalReviews = 3
    /\ words[1].correctAnswers = 1
    /\ words[2].totalReviews = 0
    /\ ret.op = "updateWordSRS"
    /\ ret.value
    /\ ~ret.correct


----------------------------------------------------------------------------
(* EnhancedAudioManager.speak: what it returns and what was heard *)

\* C28: EnhancedAudioManager.speak returns true only if a provider spoke the text
\* in that call; a second speak of a text within the 24 hours of the cache, after
\* a speak of it that succeeded, is heard as well.
\* (a text btoa does not take makes the call throw: it returns nothing)
C28_TrueMeansSpoken ==
    (ret.op = "enhancedSpeak" /\ IsLatin1(ret.text) /\ ret.value = TRUE) =>
        ret.voice \in { "cloud", "local" }


----------------------------------------------------------------------------
(* Two requests for texts of different keys at the TTS server: quickStart of  *)
(* the one and of the other one await at a time over the one cache_index.json *)

NextTwoKeys ==
    \/ \E force \in BOOLEAN : Call(1, <<"l", "a">>, force)
    \/ \E force \in BOOLEAN : Call(2, <<"a">>, force)
    \/ \E p \in Procs : Answer(p)

SpecTwoKeys == InitAsync /\ [][NextTwoKeys]_vars

\* quickStart of the request of call p has synthesised, written and indexed
Synthesised(p) == jobs[p].pc \in { "answer", "answered" } /\ jobs[p].paid = 1

\* C29: two quickStart for different keys, interleaved at their awaits: when both
\* are over the index has an entry for each of the two keys, none of them lost
\* to the other's write of the index, so a batch after them finds both texts
\* cached.
C29_NoLostIndexEntry ==
    (\A p \in Procs : Synthesised(p)) =>
        \A p \in Procs :
            /\ serverGenerateTextKey(procs[p].text) \in cacheIndex
            /\ IsCached(procs[p].text, audioFiles, cacheIndex)


----------------------------------------------------------------------------
(* The URLs speak plays and memoises, asked of the server they name *)

\* the path of a URL of the main server
PathOf(url) == IF url = FallbackCacheUrl(url[2]) THEN "audio_cache" ELSE "audio"

\* a request for the URL is answered with the file by the server the URL names;
\* the main server is asked with the file of the key in its audio cache, as it
\* was when it reported the audio
Served(url, files, index) ==
    IF url = PrimaryUrl(url[2])
    THEN primaryServe([kind |-> "head", path |-> "root", key |-> url[2]], files,
                      index, [i \in 1..MaxBatchTexts |-> TRUE]).ok
    ELSE fallbackServe([kind |-> "head", path |-> PathOf(url), key |-> url[2]],
                       {url[2]}).ok

\* C30: every URL speak resolves or memoises, from an existence probe or from the
\* synthesis answer of the primary or the fallback endpoint, is a path under which
\* that endpoint serves the file of the key: a request for it succeeds when the
\* endpoint has reported the audio as there.
C30_UrlIsServed ==
    /\ (Spoken /\ ret.url # Null) => Served(ret.url, audioFiles, cacheIndex)
    /\ \A key \in DOMAIN cache : Served(cache[key], audioFiles, cacheIndex)

====
